---- MODULE Spec2Model ----
(***************************************************************************)
(* Model of src/_handlers.ts of http-proxy-middleware: the resolution of   *)
(* the http-proxy event handlers from the middleware options               *)
(* (getHandlers), their subscription on the proxy (init), the wrapper put  *)
(* around onProxyReq (wrapWithErrorHandler), the default error handler     *)
(* (defaultErrorHandler), its status classifier (getErrorCode) and the     *)
(* default close handler (logClose).                                       *)
(***************************************************************************)
EXTENDS Integers, Sequences, FiniteSets, TLC

VARIABLES
  options,    \* the configuration object most recently handed to the module
  handlers,   \* the object returned by the last getHandlers call (<<>>: none yet)
  seen,       \* history: argument and result of the first getHandlers call
  listeners,  \* the proxy's listeners, in registration order
  inits,      \* number of init calls made on the proxy
  nextId,     \* number of wrapper closures created so far
  call,       \* the last operation performed and its inputs
  outcome,    \* how the last operation ended: a return or a throw
  resLog,     \* calls the last operation made on the response, in order
  destroyed,  \* errors the last operation passed to destroy() of its first argument
  logs        \* lines the last operation handed to the logger

vars == <<options, handlers, seen, listeners, inits, nextId, call, outcome,
          resLog, destroyed, logs>>

-----------------------------------------------------------------------------
(* Bounds *)

MaxClosures == 2

MaxInits == 1

-----------------------------------------------------------------------------
(* JavaScript values.  t is the result of typeof, s the text of a string   *)
(* or the name of a function, wraps the function a wrapper closes over and *)
(* id tells wrapper closures created by different calls apart.             *)

Undefined == [t |-> "undefined", s |-> "", wraps |-> <<>>, id |-> 0]

Null == [t |-> "object", s |-> "null", wraps |-> <<>>, id |-> 0]

Str(text) == [t |-> "string", s |-> text, wraps |-> <<>>, id |-> 0]

Fn(name) == [t |-> "function", s |-> name, wraps |-> <<>>, id |-> 0]

\* String(v) as a template literal or RegExp.prototype.test applies it
StringOf(v) ==
  CASE v.t = "undefined" -> "undefined"
    [] v.t = "object"    -> "null"
    [] OTHER             -> v.s

EventNames == {"error", "proxyReq", "proxyReqWs", "proxyRes", "open", "close"}

\* Object.entries(proxyEventsMap), in the order of the literal
proxyEventsMap ==
  << <<"error", "onError">>,
     <<"proxyReq", "onProxyReq">>,
     <<"proxyReqWs", "onProxyReqWs">>,
     <<"proxyRes", "onProxyRes">>,
     <<"open", "onOpen">>,
     <<"close", "onClose">> >>

HookNames == {proxyEventsMap[i][2] : i \in 1..Len(proxyEventsMap)}

\* a user callback configured under hook name h
UserFn(h) == Fn("user:" \o h)

\* what may stand under hook name h: nothing, a non-callable, a callable
HookValues(h) == {Undefined, Str("not-a-function"), UserFn(h)}

\* a hook left out or set to a callable
PlainValues(h) == {Undefined, UserFn(h)}

\* options is undefined or null
NoOptions == [isObject |-> FALSE, props |-> [h \in HookNames |-> Undefined]]

\* options is {}
EmptyOptions == [isObject |-> TRUE, props |-> [h \in HookNames |-> Undefined]]

\* every configuration: no object, or an object with each hook in any state
Configs ==
  {NoOptions} \cup
  {[isObject |-> TRUE, props |-> p] :
     p \in [onError : HookValues("onError"), onProxyReq : HookValues("onProxyReq"),
            onProxyReqWs : HookValues("onProxyReqWs"), onProxyRes : HookValues("onProxyRes"),
            onOpen : HookValues("onOpen"), onClose : HookValues("onClose")]}

\* the configurations whose handlers are invoked
InvokeConfigs ==
  {NoOptions} \cup
  {[isObject |-> TRUE, props |-> p] :
     p \in [onError : HookValues("onError"), onProxyReq : HookValues("onProxyReq"),
            onProxyReqWs : PlainValues("onProxyReqWs"), onProxyRes : PlainValues("onProxyRes"),
            onOpen : PlainValues("onOpen"), onClose : HookValues("onClose")]}

\* the configurations resolved one after another
ReuseConfigs ==
  {NoOptions} \cup
  {[isObject |-> TRUE, props |-> p] :
     p \in [onError : HookValues("onError"), onProxyReq : PlainValues("onProxyReq"),
            onProxyReqWs : {Undefined}, onProxyRes : {Undefined},
            onOpen : PlainValues("onOpen"), onClose : PlainValues("onClose")]}

-----------------------------------------------------------------------------
(* Objects with insertion-ordered keys (the handlers object).              *)

Keys(obj) == [i \in 1..Len(obj) |-> obj[i].key]

Has(obj, k) == \E i \in 1..Len(obj) : obj[i].key = k

\* obj[k], undefined when the key is missing
Get(obj, k) ==
  IF Has(obj, k)
  THEN obj[CHOOSE i \in 1..Len(obj) : obj[i].key = k].value
  ELSE Undefined

\* obj[k] = v: overwrite in place, or append a new key
Put(obj, k, v) ==
  IF Has(obj, k)
  THEN [i \in 1..Len(obj) |-> IF obj[i].key = k THEN [key |-> k, value |-> v] ELSE obj[i]]
  ELSE Append(obj, [key |-> k, value |-> v])

-----------------------------------------------------------------------------
(* The functions the module names.                                         *)

defaultErrorHandlerFn == Fn("defaultErrorHandler")

logCloseFn == Fn("logClose")

\* the closure wrapWithErrorHandler returns around handler; fresh numbers it
Wrapper(handler, fresh) ==
  [t |-> "function", s |-> "wrapper", wraps |-> <<handler>>, id |-> fresh]

\* faulty variant: every handler is wrapped
wrapWithErrorHandlerAll(eventName, handler, fresh) == Wrapper(handler, fresh)

wrapWithErrorHandler(eventName, handler, fresh) ==
  IF eventName # "proxyReq"
  THEN handler
  ELSE Wrapper(handler, fresh)

\* faulty variant: the handler is tested for truthiness
IsTruthy(v) == v.t \notin {"undefined", "object"}

\* typeof v === 'function'
IsCallable(v) == v.t = "function"

\* const fnHandler = options ? options[onEventName] : null
fnHandlerOf(opts, onEventName) ==
  IF opts.isObject THEN opts.props[onEventName] ELSE Null

\* faulty variant: one handlers object is shared by all calls
SharedHandlers == handlers

\* const handlers: any = {}
NewHandlers == <<>>

\* the for loop over Object.entries(proxyEventsMap), from entry i on
RECURSIVE ResolveFrom(_, _, _, _)
ResolveFrom(i, opts, acc, fresh) ==
  IF i > Len(proxyEventsMap)
  THEN acc
  ELSE LET eventName   == proxyEventsMap[i][1]
           onEventName == proxyEventsMap[i][2]
           fnHandler   == fnHandlerOf(opts, onEventName)
       IN  ResolveFrom(i + 1, opts,
             IF IsCallable(fnHandler)
             THEN Put(acc, eventName, wrapWithErrorHandler(eventName, fnHandler, fresh))
             ELSE acc,
             fresh)

\* faulty variant: no default error handler is added
WithoutDefaultError(h) == h

\* add default error handler in absence of error handler
WithDefaultError(h) ==
  IF ~IsCallable(Get(h, "error")) THEN Put(h, "error", defaultErrorHandlerFn) ELSE h

\* add default close handler in absence of close handler
WithDefaultClose(h) ==
  IF ~IsCallable(Get(h, "close")) THEN Put(h, "close", logCloseFn) ELSE h

getHandlers(opts, fresh) ==
  WithDefaultClose(WithDefaultError(ResolveFrom(1, opts, NewHandlers, fresh)))

\* whether getHandlers(opts) creates a wrapper closure
CreatesClosure(opts) == IsCallable(fnHandlerOf(opts, "onProxyReq"))

-----------------------------------------------------------------------------
(* Errors, requests and responses handed to the handlers.                  *)

\* the values of err.code the handlers are invoked with
Codes ==
  {Undefined, Str("ECONNREFUSED"), Str("HPE_INVALID_HEADER_TOKEN"), Str("ANYTHING_ELSE")}

Errors == [name : {"Error"}, code : Codes]

\* the values of err.code the classifier is tried on: absent, and the texts
\* it names with something before and after them
ClassifyCodes ==
  {Undefined} \cup
  {Str(before \o text \o after) :
     before \in {"", "X", "ERR_"},
     text \in {"HPE_INVALID", "HPE_INVALI", "hpe_invalid", "ECONNRESET", "ENOTFOUND",
               "ECONNREFUSED", "ETIMEDOUT", "ANYTHING_ELSE", "undefined", ""},
     after \in {"", "_HEADER_TOKEN", "X"}}

ClassifyErrors == [name : {"Error"}, code : ClassifyCodes]

NoError == [name |-> "", code |-> Undefined]

\* thrown by the engine on reading a property of undefined
TypeError == [name |-> "TypeError", code |-> Undefined]

\* IncomingMessage: absent, without headers, without a host header, complete
AbsentReq == [present |-> FALSE, hasHeaders |-> FALSE, host |-> Undefined, url |-> Undefined]

Requests ==
  {AbsentReq,
   [present |-> TRUE, hasHeaders |-> FALSE, host |-> Undefined, url |-> Str("/foo")],
   [present |-> TRUE, hasHeaders |-> TRUE, host |-> Undefined, url |-> Str("/foo")],
   [present |-> TRUE, hasHeaders |-> TRUE, host |-> Str("example.com"), url |-> Str("/foo")],
   [present |-> TRUE, hasHeaders |-> TRUE, host |-> Str("localhost:3000"), url |-> Str("/")]}

\* ServerResponse: absent, a socket (no writeHead), before and after the headers
AbsentRes == [present |-> FALSE, hasWriteHead |-> FALSE, headersSent |-> FALSE]

Responses ==
  {AbsentRes,
   [present |-> TRUE, hasWriteHead |-> FALSE, headersSent |-> FALSE],
   [present |-> TRUE, hasWriteHead |-> TRUE, headersSent |-> FALSE],
   [present |-> TRUE, hasWriteHead |-> TRUE, headersSent |-> TRUE]}

Returned(v) == [type |-> "return", err |-> NoError, value |-> v]

Thrown(e) == [type |-> "throw", err |-> e, value |-> Undefined]

\* pattern occurs somewhere in text: an unanchored RegExp of literal characters
Contains(text, pattern) ==
  \E i \in 1..(Len(text) - Len(pattern) + 1) :
    SubSeq(text, i, i + Len(pattern) - 1) = pattern

\* faulty variant: the ETIMEDOUT case is missing
getErrorCodeWithoutTimeout(code) ==
  IF Contains(StringOf(code), "HPE_INVALID")
  THEN 502
  ELSE IF code.t = "string" /\ code.s \in {"ECONNRESET", "ENOTFOUND", "ECONNREFUSED"}
       THEN 504
       ELSE 500

getErrorCode(code) ==
  IF Contains(StringOf(code), "HPE_INVALID")
  THEN 502
  ELSE IF code.t = "string"
          /\ code.s \in {"ECONNRESET", "ENOTFOUND", "ECONNREFUSED", "ETIMEDOUT"}
       THEN 504
       ELSE 500

WriteHead(status) == [op |-> "writeHead", status |-> status, body |-> ""]

End(body) == [op |-> "end", status |-> 0, body |-> body]

\* faulty variant: the path is left out of the body
ErrorBodyWithoutPath(host, url) ==
  "Error occured while trying to proxy: " \o StringOf(host)

\* `Error occured while trying to proxy: ${host}${req.url}`
ErrorBody(host, url) ==
  "Error occured while trying to proxy: " \o StringOf(host) \o StringOf(url)

\* faulty variant: a new error is thrown in place of the one received
RethrowAsNewError(err) == Thrown([name |-> "Error", code |-> Undefined])

\* throw err
Rethrow(err) == Thrown(err)

\* faulty variant: headersSent is not consulted
MayWriteHeadIgnoringSent(res) == res.hasWriteHead

\* res.writeHead && !res.headersSent
MayWriteHead(res) == res.hasWriteHead /\ ~res.headersSent

\* what defaultErrorHandler(err, req, res) does: how it ends and what it
\* calls on res
defaultErrorHandler(err, req, res) ==
  IF ~req.present /\ ~res.present
  THEN [outcome |-> Rethrow(err), resLog |-> <<>>]
  ELSE IF ~req.present
  THEN [outcome |-> Thrown(TypeError), resLog |-> <<>>]  \* req.headers of undefined
  ELSE LET host == IF req.hasHeaders THEN req.host ELSE Undefined
           code == err.code
       IN  IF ~res.present
           THEN [outcome |-> Thrown(TypeError), resLog |-> <<>>]  \* res.writeHead of undefined
           ELSE [outcome |-> Returned(Undefined),
                 resLog  |->
                   (IF MayWriteHead(res)
                    THEN <<WriteHead(getErrorCode(code))>>
                    ELSE <<>>)
                   \o <<End(ErrorBody(host, req.url))>>]

\* a user callback either returns its result or throws err
UserCall(fn, throws, err) ==
  IF throws THEN Thrown(err) ELSE Returned(Str("result of " \o fn.s))

\* faulty variant: the exception is thrown again after destroy
wrapperRethrows(fn, throws, err) ==
  LET r == UserCall(fn.wraps[1], throws, err)
  IN  IF r.type = "throw"
      THEN [outcome |-> r, destroyed |-> <<r.err>>]
      ELSE [outcome |-> r, destroyed |-> <<>>]

\* the closure of wrapWithErrorHandler: try { return handler(...) }
\* catch (exception) { proxy.destroy(exception) }
wrapper(fn, throws, err) ==
  LET r == UserCall(fn.wraps[1], throws, err)
  IN  IF r.type = "throw"
      THEN [outcome |-> Returned(Undefined), destroyed |-> <<r.err>>]
      ELSE [outcome |-> r, destroyed |-> <<>>]

-----------------------------------------------------------------------------
(* The state machine.                                                      *)

Idle(op, cfg) ==
  [op |-> op, cfg |-> cfg, event |-> "", fn |-> Undefined, throws |-> FALSE,
   err |-> NoError, req |-> AbsentReq, res |-> AbsentRes]

Invocation(op, event, fn, throws, err, req, res) ==
  [op |-> op, cfg |-> options, event |-> event, fn |-> fn, throws |-> throws,
   err |-> err, req |-> req, res |-> res]

InitWith(configs) ==
  /\ options \in configs
  /\ handlers = <<>>
  /\ seen = <<>>
  /\ listeners = <<>>
  /\ inits = 0
  /\ nextId = 0
  /\ call = Idle("none", options)
  /\ outcome = Returned(Undefined)
  /\ resLog = <<>>
  /\ destroyed = <<>>
  /\ logs = <<>>

\* the configuration object as getHandlers leaves it: it is only read
OptionsAfter(o) == o

\* a caller resolves the handlers of configuration o
CallGetHandlers(o) ==
  /\ CreatesClosure(o) => nextId < MaxClosures
  /\ LET h == getHandlers(o, nextId + 1)
     IN  /\ handlers' = h
         /\ seen' = IF seen = <<>> THEN <<[cfg |-> o, set |-> h]>> ELSE seen
  /\ options' = OptionsAfter(o)
  /\ nextId' = IF CreatesClosure(o) THEN nextId + 1 ELSE nextId
  /\ call' = Idle("getHandlers", o)
  /\ outcome' = Returned(Undefined)
  /\ resLog' = <<>>
  /\ destroyed' = <<>>
  /\ logs' = <<>>
  /\ UNCHANGED <<listeners, inits>>

\* faulty variant: the last key is not subscribed
SubscribeAllButLast(proxyListeners, h) ==
  proxyListeners \o
    [i \in 1..(Len(h) - 1) |-> [event |-> Keys(h)[i], fn |-> Get(h, Keys(h)[i])]]

\* for (const eventName of Object.keys(handlers)) proxy.on(eventName, handlers[eventName])
Subscribe(proxyListeners, h) ==
  proxyListeners \o [i \in 1..Len(h) |-> [event |-> Keys(h)[i], fn |-> Get(h, Keys(h)[i])]]

\* init(proxy, option)
init(o) ==
  /\ inits < MaxInits
  /\ CreatesClosure(o) => nextId < MaxClosures
  /\ LET h == getHandlers(o, nextId + 1)
     IN  /\ listeners' = Subscribe(listeners, h)
         /\ logs' = <<[level |-> "debug",
                       msg |-> "[HPM] Subscribed to http-proxy events:",
                       keys |-> Keys(h)]>>
  /\ inits' = inits + 1
  /\ options' = OptionsAfter(o)
  /\ nextId' = IF CreatesClosure(o) THEN nextId + 1 ELSE nextId
  /\ call' = Idle("init", o)
  /\ outcome' = Returned(Undefined)
  /\ resLog' = <<>>
  /\ destroyed' = <<>>
  /\ UNCHANGED <<handlers, seen>>

IsUserFn(f) == f.t = "function" /\ f.wraps = <<>> /\ f \notin {defaultErrorHandlerFn, logCloseFn}

IsWrapper(f) == f.t = "function" /\ f.wraps # <<>>

\* the engine emits event ev and the resolved entry is a user callback
InvokeUser(ev, throws, err) ==
  /\ Has(handlers, ev)
  /\ IsUserFn(Get(handlers, ev))
  /\ call' = Invocation("user", ev, Get(handlers, ev), throws, err, AbsentReq, AbsentRes)
  /\ outcome' = UserCall(Get(handlers, ev), throws, err)
  /\ resLog' = <<>>
  /\ destroyed' = <<>>
  /\ logs' = <<>>
  /\ UNCHANGED <<options, handlers, seen, listeners, inits, nextId>>

\* the engine emits event ev and the resolved entry is the wrapper
InvokeWrapper(ev, throws, err) ==
  /\ Has(handlers, ev)
  /\ IsWrapper(Get(handlers, ev))
  /\ LET r == wrapper(Get(handlers, ev), throws, err)
     IN  /\ outcome' = r.outcome
         /\ destroyed' = r.destroyed
  /\ call' = Invocation("wrapper", ev, Get(handlers, ev), throws, err, AbsentReq, AbsentRes)
  /\ resLog' = <<>>
  /\ logs' = <<>>
  /\ UNCHANGED <<options, handlers, seen, listeners, inits, nextId>>

\* the engine emits 'error' and the resolved entry is defaultErrorHandler
InvokeDefaultErrorHandler(err, req, res) ==
  /\ Get(handlers, "error") = defaultErrorHandlerFn
  /\ LET r == defaultErrorHandler(err, req, res)
     IN  /\ outcome' = r.outcome
         /\ resLog' = r.resLog
  /\ call' = Invocation("defaultErrorHandler", "error", defaultErrorHandlerFn, FALSE,
                        err, req, res)
  /\ destroyed' = <<>>
  /\ logs' = <<>>
  /\ UNCHANGED <<options, handlers, seen, listeners, inits, nextId>>

\* the engine emits 'close' and the resolved entry is logClose
InvokeLogClose ==
  /\ Get(handlers, "close") = logCloseFn
  /\ logs' = <<[level |-> "info", msg |-> "[HPM] Client disconnected", keys |-> <<>>]>>
  /\ call' = Invocation("logClose", "close", logCloseFn, FALSE, NoError, AbsentReq, AbsentRes)
  /\ outcome' = Returned(Undefined)
  /\ resLog' = <<>>
  /\ destroyed' = <<>>
  /\ UNCHANGED <<options, handlers, seen, listeners, inits, nextId>>

\* the errors a user callback is made to throw
UserErrors == {[name |-> "Error", code |-> Undefined], [name |-> "Error", code |-> Str("ECONNRESET")]}

\* the handlers of one configuration are resolved and the engine invokes them
Init == InitWith(InvokeConfigs)

Next ==
  \/ CallGetHandlers(options)
  \/ \E ev \in EventNames, throws \in BOOLEAN, err \in UserErrors : InvokeUser(ev, throws, err)
  \/ \E ev \in EventNames, throws \in BOOLEAN, err \in UserErrors : InvokeWrapper(ev, throws, err)
  \/ \E err \in Errors, req \in Requests, res \in Responses :
       InvokeDefaultErrorHandler(err, req, res)
  \/ InvokeLogClose

Spec == Init /\ [][Next]_vars

\* the middleware resolves its configuration and subscribes it on the proxy
InitResolve == InitWith(Configs)

NextResolve ==
  \/ CallGetHandlers(options)
  \/ init(options)

SpecResolve == InitResolve /\ [][NextResolve]_vars

\* getHandlers is called on one configuration after another
InitReuse == InitWith(ReuseConfigs)

NextReuse == \E o \in ReuseConfigs : CallGetHandlers(o)

SpecReuse == InitReuse /\ [][NextReuse]_vars

\* the default error handler classifies the codes of the errors it is given
InitClassify == InitWith({EmptyOptions})

CompleteReq ==
  [present |-> TRUE, hasHeaders |-> TRUE, host |-> Str("example.com"), url |-> Str("/foo")]

NextClassify ==
  \/ CallGetHandlers(options)
  \/ \E err \in ClassifyErrors, res \in Responses :
       res.present /\ InvokeDefaultErrorHandler(err, CompleteReq, res)

SpecClassify == InitClassify /\ [][NextClassify]_vars

-----------------------------------------------------------------------------
(* Properties.                                                             *)

\* the hook name of event name e in proxyEventsMap
HookOf(e) == proxyEventsMap[CHOOSE i \in 1..Len(proxyEventsMap) : proxyEventsMap[i][1] = e][2]

\* the configuration sets hook h to a function
Configured(cfg, h) == cfg.isObject /\ cfg.props[h].t = "function"

\* number of entries of the handlers object obj under event name e
Entries(obj, e) == Cardinality({i \in 1..Len(obj) : obj[i].key = e})

\* number of listeners the proxy holds for event name e
ListenersOn(e) == Cardinality({i \in 1..Len(listeners) : listeners[i].event = e})

\* C1: whatever the configuration (no object, an empty one, onError or onClose
\* set to a non-callable), the resolved handlers hold a function under 'error'
\* and under 'close'; without a callable onError the 'error' entry is the
\* default error handler, without a callable onClose the 'close' entry is the
\* default close logger.
C1_ErrorAndCloseAlwaysResolved ==
  handlers # <<>> =>
    /\ Entries(handlers, "error") = 1 /\ Get(handlers, "error").t = "function"
    /\ Entries(handlers, "close") = 1 /\ Get(handlers, "close").t = "function"
    /\ ~Configured(options, "onError") => Get(handlers, "error") = defaultErrorHandlerFn
    /\ ~Configured(options, "onClose") => Get(handlers, "close") = logCloseFn

C1_Witness ==
  /\ handlers # <<>>
  /\ options.isObject
  /\ options.props["onError"] = Str("not-a-function")
  /\ options.props["onClose"] = Str("not-a-function")
  /\ Get(handlers, "error") = defaultErrorHandlerFn
  /\ Get(handlers, "close") = logCloseFn

\* C2: when onProxyReq is callable and the callback throws while the resolved
\* 'proxyReq' entry is invoked, destroy of the first argument is called exactly
\* once, with the error thrown, and the entry returns instead of throwing.
C2_ProxyReqThrowIsContained ==
  /\ (handlers # <<>> /\ Configured(options, "onProxyReq"))
       => /\ IsWrapper(Get(handlers, "proxyReq"))
          /\ Get(handlers, "proxyReq").wraps = <<options.props["onProxyReq"]>>
  /\ (call.op \in {"user", "wrapper"} /\ call.event = "proxyReq" /\ call.throws)
       => /\ destroyed = <<call.err>>
          /\ outcome.type = "return"

C2_Witness ==
  /\ call.op = "wrapper"
  /\ call.event = "proxyReq"
  /\ call.throws
  /\ call.err.code = Str("ECONNRESET")
  /\ destroyed = <<call.err>>
  /\ outcome.type = "return"

\* C3: invoked without request and without response, the default error handler
\* throws the very error it was given and calls nothing on a response.
C3_SetupErrorIsRethrown ==
  (call.op = "defaultErrorHandler" /\ ~call.req.present /\ ~call.res.present)
    => /\ outcome = Thrown(call.err)
       /\ resLog = <<>>

C3_Witness ==
  /\ call.op = "defaultErrorHandler"
  /\ ~call.req.present
  /\ ~call.res.present
  /\ call.err.code = Str("ECONNREFUSED")
  /\ outcome.type = "throw"
  /\ outcome.err = call.err

\* the calls named op that the last operation made on the response
CallsOf(op) == {i \in 1..Len(resLog) : resLog[i].op = op}

\* the text a template literal makes of a request's host header and of its url
HostText(req) == IF req.hasHeaders /\ req.host.t = "string" THEN req.host.s ELSE "undefined"

UrlText(req) == IF req.url.t = "string" THEN req.url.s ELSE "undefined"

\* the last operation ended the response once, last, with the error body for req
EndedWithErrorBody(req) ==
  /\ Cardinality(CallsOf("end")) = 1
  /\ resLog[Len(resLog)].op = "end"
  /\ resLog[Len(resLog)].body =
       "Error occured while trying to proxy: " \o HostText(req) \o UrlText(req)

\* C4 as stated: whenever request and response are not both absent, also when
\* exactly one of them is, the default error handler throws nothing and ends
\* the response exactly once with 'Error occured while trying to proxy:
\* <host><path>'.
C4_Original_RespondsUnlessBothAbsent ==
  (call.op = "defaultErrorHandler" /\ ~(~call.req.present /\ ~call.res.present))
    => /\ outcome.type = "return"
       /\ EndedWithErrorBody(call.req)

\* C4 amended: whenever request and response are both present, the default
\* error handler throws nothing and ends the response exactly once with 'Error
\* occured while trying to proxy: <host><path>', an absent host header or url
\* being written as 'undefined'; when exactly one of the two is absent it
\* throws a TypeError and calls nothing on the response.
C4_RespondsWhenBothPresent ==
  call.op = "defaultErrorHandler" =>
    /\ (call.req.present /\ call.res.present)
         => /\ outcome.type = "return"
            /\ EndedWithErrorBody(call.req)
    /\ (call.req.present /\ call.res.present /\ call.req.host = Str("example.com")
          /\ call.req.url = Str("/foo"))
         => resLog[Len(resLog)].body = "Error occured while trying to proxy: example.com/foo"
    /\ (call.req.present # call.res.present)
         => /\ outcome = Thrown(TypeError)
            /\ resLog = <<>>

C4_Witness ==
  /\ call.op = "defaultErrorHandler"
  /\ call.req.present
  /\ call.res.present
  /\ call.req.host = Str("example.com")
  /\ call.err.code = Str("ECONNREFUSED")
  /\ resLog = <<WriteHead(504), End("Error occured while trying to proxy: example.com/foo")>>

\* the status the classifier gives code: 502 when the text of the code holds
\* HPE_INVALID anywhere, 504 for the four connection codes, 500 otherwise
StatusTable(code) ==
  LET text == IF code.t = "string" THEN code.s ELSE ""
  IN  IF \E i \in 0..Len(text) :
           Len(text) >= i + 11 /\ SubSeq(text, i + 1, i + 11) = "HPE_INVALID"
      THEN 502
      ELSE IF text \in {"ECONNRESET", "ENOTFOUND", "ECONNREFUSED", "ETIMEDOUT"}
           THEN 504
           ELSE 500

\* the same with 502 only when the text of the code begins with HPE_INVALID
PrefixStatusTable(code) ==
  LET text == IF code.t = "string" THEN code.s ELSE ""
  IN  IF Len(text) >= 11 /\ SubSeq(text, 1, 11) = "HPE_INVALID"
      THEN 502
      ELSE IF text \in {"ECONNRESET", "ENOTFOUND", "ECONNREFUSED", "ETIMEDOUT"}
           THEN 504
           ELSE 500

\* the response was sent the headers and then ended
HeadThenEnd(status) ==
  /\ Len(resLog) = 2
  /\ resLog[1] = WriteHead(status)
  /\ resLog[2].op = "end"

\* C5 as stated: in the default error handler, once the response has sent its
\* headers writeHead is not called and the response is still ended; with the
\* headers not sent and writeHead on offer, writeHead is called exactly once,
\* with the classifier's status of the error's code, before end.
C5_Original_HeadersSentStillEnds ==
  (call.op = "defaultErrorHandler" /\ call.res.present) =>
    /\ call.res.headersSent
         => /\ CallsOf("writeHead") = {}
            /\ Cardinality(CallsOf("end")) = 1
    /\ (~call.res.headersSent /\ call.res.hasWriteHead)
         => HeadThenEnd(StatusTable(call.err.code))

\* C5 amended: in the default error handler invoked with a request, once the
\* response has sent its headers writeHead is not called and the response is
\* still ended; with the headers not sent and writeHead on offer, writeHead is
\* called exactly once, with the classifier's status of the error's code,
\* before end.
C5_HeadersWrittenAtMostOnce ==
  (call.op = "defaultErrorHandler" /\ call.res.present /\ call.req.present) =>
    /\ call.res.headersSent
         => /\ CallsOf("writeHead") = {}
            /\ Cardinality(CallsOf("end")) = 1
    /\ (~call.res.headersSent /\ call.res.hasWriteHead)
         => HeadThenEnd(StatusTable(call.err.code))

C5_Witness ==
  /\ call.op = "defaultErrorHandler"
  /\ call.req.present
  /\ call.res.present
  /\ call.res.headersSent
  /\ CallsOf("writeHead") = {}
  /\ Cardinality(CallsOf("end")) = 1

\* the status the default error handler wrote for the code of its error
Classified(status) ==
  /\ call.op = "defaultErrorHandler"
  /\ call.res.hasWriteHead
  /\ ~call.res.headersSent
  /\ resLog # <<>>
  /\ resLog[1] = WriteHead(status)

ClassifiedAtAll ==
  call.op = "defaultErrorHandler" /\ call.res.hasWriteHead /\ ~call.res.headersSent

\* C6 as stated: getErrorCode returns 502 exactly for the codes that begin with
\* HPE_INVALID, 504 exactly for ECONNRESET, ENOTFOUND, ECONNREFUSED and
\* ETIMEDOUT, and 500 for every other code, an absent one included.
C6_Original_PrefixTable ==
  ClassifiedAtAll => Classified(PrefixStatusTable(call.err.code))

\* C6 amended: getErrorCode returns 502 exactly for the codes whose text holds
\* HPE_INVALID anywhere, otherwise 504 exactly for ECONNRESET, ENOTFOUND,
\* ECONNREFUSED and ETIMEDOUT, and 500 for every other code, an absent one
\* included; no code yields a status outside 500, 502 and 504.
C6_ClassifierTable ==
  ClassifiedAtAll =>
    /\ Classified(StatusTable(call.err.code))
    /\ resLog[1].status \in {500, 502, 504}
    /\ call.err.code = Str("HPE_INVALID_HEADER_TOKEN") => Classified(502)
    /\ call.err.code \in {Str("ECONNRESET"), Str("ENOTFOUND"), Str("ECONNREFUSED"),
                          Str("ETIMEDOUT")} => Classified(504)
    /\ call.err.code \in {Str("ANYTHING_ELSE"), Undefined} => Classified(500)

C6_Witness ==
  /\ call.err.code = Str("ERR_HPE_INVALID_HEADER_TOKEN")
  /\ Classified(502)

\* the event names resolved or subscribed without a wrapper
PassedThrough == EventNames \ {"proxyReq"}

\* C7: every hook other than onProxyReq that is set to a callable is resolved
\* to that very callable, unwrapped, so what it throws reaches its caller and
\* destroy is not called; the onProxyReq hook alone is replaced by a wrapper.
C7_OtherHooksPassThrough ==
  /\ handlers # <<>> =>
       /\ \A e \in PassedThrough :
            Configured(options, HookOf(e)) => Get(handlers, e) = options.props[HookOf(e)]
       /\ \A i \in 1..Len(handlers) :
            IsWrapper(handlers[i].value) <=> handlers[i].key = "proxyReq"
  /\ (call.op \in {"user", "wrapper"} /\ call.event \in PassedThrough)
       => /\ call.fn = options.props[HookOf(call.event)]
          /\ call.throws => (outcome = Thrown(call.err) /\ destroyed = <<>>)

C7_Witness ==
  /\ call.op = "user"
  /\ call.event = "proxyRes"
  /\ call.fn = UserFn("onProxyRes")
  /\ call.throws
  /\ outcome = Thrown(call.err)
  /\ Configured(options, "onProxyReq")
  /\ IsWrapper(Get(handlers, "proxyReq"))

\* two resolved callables are the same function, or are two wrappers around
\* the same function, which act alike whatever the callback does
SameBehaviour(f, g) ==
  \/ f = g
  \/ /\ IsWrapper(f)
     /\ IsWrapper(g)
     /\ f.wraps = g.wraps
     /\ \A throws \in BOOLEAN, err \in UserErrors :
          wrapper(f, throws, err) = wrapper(g, throws, err)

\* the event names init has to subscribe for configuration cfg
Subscribed(cfg) ==
  {"error", "close"} \cup {e \in EventNames : Configured(cfg, HookOf(e))}

\* C8: init registers on the proxy one listener for each entry of the handlers
\* resolved from its option, under the entry's event name, and none for any
\* other event: it subscribes 'error', 'close' and those of 'proxyReq',
\* 'proxyReqWs', 'proxyRes' and 'open' whose hook is set to a callable, so an
\* empty configuration subscribes 'error' and 'close' alone.
C8_InitSubscribesResolvedHandlers ==
  /\ \A i \in 1..Len(listeners) : listeners[i].event \in Subscribed(options)
  /\ \A e \in Subscribed(options) : ListenersOn(e) = inits
  /\ Len(listeners) = inits * Cardinality(Subscribed(options))
  /\ handlers # <<>> =>
       \A i \in 1..Len(listeners) :
         /\ Has(handlers, listeners[i].event)
         /\ SameBehaviour(listeners[i].fn, Get(handlers, listeners[i].event))
  /\ call.op = "init" =>
       /\ logs[1].keys = [i \in 1..Len(logs[1].keys) |->
                            listeners[Len(listeners) - Len(logs[1].keys) + i].event]
       /\ {logs[1].keys[i] : i \in 1..Len(logs[1].keys)} = Subscribed(options)

C8_Witness ==
  /\ call.op = "init"
  /\ options = EmptyOptions
  /\ handlers # <<>>
  /\ listeners = <<[event |-> "error", fn |-> defaultErrorHandlerFn],
                   [event |-> "close", fn |-> logCloseFn]>>

\* C9 as stated: after getHandlers every one of the six event names has
\* exactly one entry in the resolved handlers, whatever the configuration.
C9_Original_AllSixResolved ==
  handlers # <<>> => \A e \in EventNames : Entries(handlers, e) = 1

\* C9 amended: after getHandlers 'error' and 'close' have exactly one entry in
\* the resolved handlers, whatever the configuration; each of 'proxyReq',
\* 'proxyReqWs', 'proxyRes' and 'open' has exactly one entry when its hook is
\* set to a callable and none otherwise.
C9_ResolvedEntries ==
  handlers # <<>> =>
    /\ \A e \in EventNames :
         Entries(handlers, e) = IF e \in Subscribed(options) THEN 1 ELSE 0
    /\ \A i \in 1..Len(handlers) : handlers[i].key \in EventNames

C9_Witness ==
  /\ handlers # <<>>
  /\ options.isObject
  /\ options.props["onOpen"] = UserFn("onOpen")
  /\ options.props["onProxyRes"] = Str("not-a-function")
  /\ Entries(handlers, "open") = 1
  /\ Entries(handlers, "proxyRes") = 0
  /\ Entries(handlers, "proxyReqWs") = 0

\* two resolved handler objects have the same event names in the same order
\* and, under each, callables that act alike
SameHandlers(h1, h2) ==
  /\ Keys(h1) = Keys(h2)
  /\ \A i \in 1..Len(h1) : SameBehaviour(h1[i].value, h2[i].value)
  /\ \A i \in 1..Len(h1) : ~IsWrapper(h1[i].value) => h1[i].value = h2[i].value

\* C10: getHandlers keeps nothing from one call to the next and does not
\* write to its configuration: after any calls, a call on a configuration it
\* was called on first returns the same event names, the same callables for
\* the unwrapped and default entries and a 'proxyReq' wrapper that acts alike,
\* and the configuration is as it was passed.
C10_GetHandlersKeepsNoState ==
  (call.op = "getHandlers" /\ seen # <<>>) =>
    /\ options = call.cfg
    /\ call.cfg = seen[1].cfg => SameHandlers(handlers, seen[1].set)

C10_Witness ==
  /\ call.op = "getHandlers"
  /\ seen # <<>>
  /\ call.cfg = seen[1].cfg
  /\ Configured(call.cfg, "onProxyReq")
  /\ Configured(call.cfg, "onOpen")
  /\ handlers # seen[1].set
  /\ SameHandlers(handlers, seen[1].set)

====
